---- MODULE Spec2Model ----
(***************************************************************************)
(* EarthquakeWidget: the alert/display controller of the dashboard.        *)
(*                                                                         *)
(* The component's React state is the model's state.  A handler (a poll    *)
(* continuation, a timer callback, a click) commits its state updates and  *)
(* marks the effects whose dependencies changed; Flush runs the marked     *)
(* effects of that commit, in declaration order, on the committed values.  *)
(* React flushes the passive effects of a commit before it renders any     *)
(* later update, so the handlers wait for an empty `dirty`.                *)
(*                                                                         *)
(* Times are whole minutes.  A time string is modelled by its minute       *)
(* number; 0 is the empty / unparsable string (falsy, Date gives NaN).     *)
(* The items of the quake and tsunami feeds carry non-empty times.         *)
(***************************************************************************)
EXTENDS Integers, FiniteSets, Sequences, TLC

VARIABLES
    quakeData,      \* useState<QuakeData | null>
    tsunamiData,    \* useState<TsunamiData | null>
    eewData,        \* useState<EEWData | null>
    loading,        \* useState(false)
    testMode,       \* useState(false)
    activeMode,     \* useState<DisplayMode>('EARTHQUAKE')
    lastAlertTime,  \* useState<string | null>(null)
    polls,          \* fetchData calls in flight: how many wait at each await
    pollTimer,      \* the armed setInterval(fetchData, pollingInterval) timers, in
                    \* arming order
    rotation,       \* the armed rotation timers: the activeMode each one's callback
                    \* closed over, in arming order
    dirty,          \* effects marked by the last commit, not yet run
    now,            \* Date.now(), in minutes
    sound,          \* what playAlertSound was asked to play by the last step
    alerted,        \* history: event times a sound was played for since the last reset
    manual,         \* history: "yes" while the display mode is the one the user last
                    \* clicked, "overridden" once the rotation has moved it away
    event,          \* the handler that ran last
    resp,           \* history: the response the last poll step read (kept only
                    \* in the behaviours of PollSpec)
    arg,            \* the argument of a call of one of the module's helper functions
    ret             \* what that call returned

widget == <<quakeData, tsunamiData, eewData, loading, testMode, activeMode,
            lastAlertTime, polls, pollTimer, rotation, dirty, now, sound,
            alerted, manual, event, resp>>
helper == <<arg, ret>>
vars == <<widget, helper>>

-----------------------------------------------------------------------------
(* Bounds of the model *)

MaxNow == 4          \* the clock runs from 1 to MaxNow
MaxStamp == 2        \* feed items carry the times 1..MaxStamp
MaxInFlight == 2     \* fetchData calls in flight at once

(* Program constants *)

FreshnessWindow == 3     \* 3 * 60 * 1000 ms, in minutes
AlertScale == 30         \* quakeData.maxScale >= 30

-----------------------------------------------------------------------------
(* Values *)

Null == [type |-> "null"]
NoTime == -1             \* lastAlertTime === null

Modes == {"EARTHQUAKE", "TSUNAMI", "EEW"}
Effects == {"fetch", "interval", "alert", "mode"}
Stages == {"quake", "tsunami", "eew"}

QuakeData(t, s) == [type |-> "EARTHQUAKE", time |-> t, maxScale |-> s]
TsunamiData(t, c) == [type |-> "TSUNAMI", time |-> t, cancelled |-> c]
EEWData(t) == [type |-> "EEW", time |-> t]

InFlight == polls["quake"] + polls["tsunami"] + polls["eew"]

-----------------------------------------------------------------------------
(* The responses a feed can give.  kind names the shape of the response;   *)
(* the other fields are read only where the kind has them.                  *)

Stamps == 1..MaxStamp
Scales == {20, 30}

QuakeKinds == {"rejected", "notOk", "emptyBody", "badJson", "emptyList",
               "noEarthquake", "noHypocenter", "item"}
QuakeResponses ==
    [kind : QuakeKinds \ {"item"}, time : {0}, maxScale : {0}]
        \cup [kind : {"item"}, time : Stamps, maxScale : Scales]

TsunamiKinds == {"notOk", "emptyBody", "badJson", "emptyList", "noAreas",
                 "badAreas", "item"}
TsunamiResponses ==
    [kind : TsunamiKinds \ {"item"}, time : {0}, cancelled : {FALSE}]
        \cup [kind : {"item"}, time : Stamps, cancelled : BOOLEAN]

EEWKinds == {"notOk", "emptyBody", "badJson", "emptyList", "nullItem",
             "noEarthquake", "noIssue", "item"}
EEWItemKinds == {"noEarthquake", "noIssue", "item"}
EEWResponses ==
    [kind : EEWKinds \ EEWItemKinds, time : {0}, cancelled : {FALSE}]
        \cup [kind : EEWItemKinds, time : {0} \cup Stamps, cancelled : BOOLEAN]

(* Faulty variant: the window taken inclusive, (now - eventTime) <= 3 minutes. *)
IsRecentInclusive(t, clock) == t # 0 /\ (clock - t) <= FreshnessWindow

(* isRecent: new Date(time).getTime() is NaN for an unparsable time, and   *)
(* every comparison with NaN is false.                                      *)
IsRecent(t, clock) == t # 0 /\ (clock - t) < FreshnessWindow

(* What the 551 branch does with a response: "skip" leaves quakeData,      *)
(* "set" replaces it, "throw" leaves it and jumps to the catch.  The call  *)
(* reaches the branch through Promise.all, which throws ("rejected") when  *)
(* one of the three requests fails.                                         *)
QuakeOutcome(r) ==
    CASE r.kind \in {"notOk", "emptyBody", "emptyList", "noEarthquake"} -> "skip"
      [] r.kind \in {"rejected", "badJson", "noHypocenter"} -> "throw"
      [] OTHER -> "set"

(* Faulty variant: the clearing else taken one level up, on an empty list too. *)
TsunamiOutcomeClearsOnEmpty(r) ==
    CASE r.kind \in {"notOk", "emptyBody"} -> "skip"
      [] r.kind \in {"badJson", "badAreas"} -> "throw"
      [] r.kind \in {"noAreas", "emptyList"} -> "clear"
      [] OTHER -> "set"

(* The 552 branch: an item without areas clears the record. *)
TsunamiOutcome(r) ==
    CASE r.kind \in {"notOk", "emptyBody", "emptyList"} -> "skip"
      [] r.kind \in {"badJson", "badAreas"} -> "throw"
      [] r.kind = "noAreas" -> "clear"
      [] OTHER -> "set"

(* The 554 branch: reading latestEEW.time of a null item throws; a stale   *)
(* or cancelled item clears the record; a fresh one is stored if it has    *)
(* an earthquake, and reading issue.type of an item without issue throws.   *)
EEWOutcome(r, clock) ==
    IF r.kind \in {"notOk", "emptyBody", "emptyList"} THEN "skip"
    ELSE IF r.kind \in {"badJson", "nullItem"} THEN "throw"
    ELSE IF ~(IsRecent(r.time, clock) /\ ~r.cancelled) THEN "clear"
    ELSE IF r.kind = "noEarthquake" THEN "skip"
    ELSE IF r.kind = "noIssue" THEN "throw"
    ELSE "set"

-----------------------------------------------------------------------------
(* The alert sound effect: the candidate it picks from the committed        *)
(* records.  time is the eventTime local ('' when nothing is picked).       *)

(* Faulty variant: the quake branch tested before the EEW branch. *)
AlertCandidateQuakeFirst(q, t, e, last) ==
    IF q # Null /\ q.maxScale >= AlertScale
    THEN IF q.time # last
         THEN [shouldAlert |-> TRUE, time |-> q.time, isEEW |-> FALSE]
         ELSE [shouldAlert |-> FALSE, time |-> 0, isEEW |-> FALSE]
    ELSE IF e # Null
    THEN IF e.time # last
         THEN [shouldAlert |-> TRUE, time |-> e.time, isEEW |-> TRUE]
         ELSE [shouldAlert |-> FALSE, time |-> 0, isEEW |-> FALSE]
    ELSE IF t # Null /\ ~t.cancelled
    THEN IF t.time # last
         THEN [shouldAlert |-> TRUE, time |-> t.time, isEEW |-> FALSE]
         ELSE [shouldAlert |-> FALSE, time |-> 0, isEEW |-> FALSE]
    ELSE [shouldAlert |-> FALSE, time |-> 0, isEEW |-> FALSE]

(* Faulty variant: the comparisons with lastAlertTime left out. *)
AlertCandidateNoDedup(q, t, e, last) ==
    IF e # Null
    THEN [shouldAlert |-> TRUE, time |-> e.time, isEEW |-> TRUE]
    ELSE IF q # Null /\ q.maxScale >= AlertScale
    THEN [shouldAlert |-> TRUE, time |-> q.time, isEEW |-> FALSE]
    ELSE IF t # Null /\ ~t.cancelled
    THEN [shouldAlert |-> TRUE, time |-> t.time, isEEW |-> FALSE]
    ELSE [shouldAlert |-> FALSE, time |-> 0, isEEW |-> FALSE]

AlertCandidate(q, t, e, last) ==
    IF e # Null
    THEN IF e.time # last
         THEN [shouldAlert |-> TRUE, time |-> e.time, isEEW |-> TRUE]
         ELSE [shouldAlert |-> FALSE, time |-> 0, isEEW |-> FALSE]
    ELSE IF q # Null /\ q.maxScale >= AlertScale
    THEN IF q.time # last
         THEN [shouldAlert |-> TRUE, time |-> q.time, isEEW |-> FALSE]
         ELSE [shouldAlert |-> FALSE, time |-> 0, isEEW |-> FALSE]
    ELSE IF t # Null /\ ~t.cancelled
    THEN IF t.time # last
         THEN [shouldAlert |-> TRUE, time |-> t.time, isEEW |-> FALSE]
         ELSE [shouldAlert |-> FALSE, time |-> 0, isEEW |-> FALSE]
    ELSE [shouldAlert |-> FALSE, time |-> 0, isEEW |-> FALSE]

(* if (shouldAlert && eventTime): an empty eventTime is falsy. *)
AlertFires(c) == c.shouldAlert /\ c.time # 0

(* The alert effect on the committed state: the sound it plays and the     *)
(* lastAlertTime it sets.  It returns at once in test mode.                 *)
AlertEffect(test, q, t, e, last) ==
    LET c == AlertCandidate(q, t, e, last) IN
    IF ~test /\ AlertFires(c)
    THEN [sound |-> IF c.isEEW THEN "eew" ELSE "normal", last |-> c.time]
    ELSE [sound |-> "none", last |-> last]

(* The mode selection effect, after the cleanup of its previous run has    *)
(* cleared the rotation interval: the activeMode it sets and the closure   *)
(* of the interval it arms ("none" when it returns before arming one).      *)
ModeEffect(test, e, mode) ==
    IF test THEN [mode |-> mode, rotation |-> "none"]
    ELSE IF e # Null THEN [mode |-> "EEW", rotation |-> "none"]
    ELSE [mode |-> IF mode = "EEW" THEN "EARTHQUAKE" ELSE mode, rotation |-> mode]

(* Faulty variant: an effect that returns no cleanup, so that the interval  *)
(* of its previous run stays armed.                                         *)
CleanupLeaks(timers) == timers

(* The cleanup an effect run returned, () => clearInterval(...): React     *)
(* calls it before the effect runs again; it clears the interval that run  *)
(* armed, the last one armed.                                               *)
Cleanup(timers) ==
    IF timers = <<>> THEN <<>> ELSE SubSeq(timers, 1, Len(timers) - 1)

(* setInterval: one more timer armed, unless the effect returned before it. *)
Arm(timers, closure) ==
    IF closure = "none" THEN timers ELSE Append(timers, closure)

(* Faulty variant: the polling effect returns before arming, always. *)
PollingEffectNeverArms(test) == "none"

(* The polling effect: it returns in test mode, and arms otherwise an       *)
(* interval with the fetchData of its render ("none" when it arms none).    *)
PollingEffect(test) == IF test THEN "none" ELSE "fetchData"

(* Faulty variant: both arms of the conditional give 'TSUNAMI'. *)
RotateOneWay(closure, prev) ==
    IF closure # "EEW" THEN "TSUNAMI" ELSE prev

(* The rotation callback: prev => prev === 'EARTHQUAKE' ? 'TSUNAMI' : ...,  *)
(* guarded by the activeMode the callback closed over.                      *)
Rotate(closure, prev) ==
    IF closure # "EEW"
    THEN IF prev = "EARTHQUAKE" THEN "TSUNAMI" ELSE "EARTHQUAKE"
    ELSE prev

(* The component renders nothing while the first data is being loaded. *)
Rendered ==
    ~(loading /\ quakeData = Null /\ tsunamiData = Null /\ eewData = Null /\ ~testMode)

isEEWActive == eewData # Null

-----------------------------------------------------------------------------
(* The response history is kept only where it starts as NoResponse. *)
Untracked == [kind |-> "untracked"]
NoResponse == [kind |-> "none"]
Read(r) == IF resp.kind = "untracked" THEN resp ELSE r

(* The state after the first render: every effect is still to run. *)

Mounted ==
    /\ quakeData = Null
    /\ tsunamiData = Null
    /\ eewData = Null
    /\ loading = FALSE
    /\ testMode = FALSE
    /\ activeMode = "EARTHQUAKE"
    /\ lastAlertTime = NoTime
    /\ polls = [s \in Stages |-> 0]
    /\ pollTimer = <<>>
    /\ rotation = <<>>
    /\ dirty = Effects
    /\ now = 1
    /\ sound = "none"
    /\ alerted = {}
    /\ manual = "no"
    /\ event = "mount"

(* No helper call is being followed in the behaviours of the widget. *)
NoCall == [fn |-> "none"]

Init == Mounted /\ resp = Untracked /\ arg = NoCall /\ ret = NoCall

(* fetchData, past its test-mode check: setLoading(true) and the three     *)
(* requests go out; the call waits at Promise.all.                          *)
StartPoll ==
    /\ loading' = TRUE
    /\ polls' = [polls EXCEPT !["quake"] = @ + 1]

(* A fetchData call leaves one await for the next. *)
Advance(from, to) == polls' = [polls EXCEPT ![from] = @ - 1, ![to] = @ + 1]

(* Faulty variant: the finally block left out. *)
FinishKeepsLoading(from) ==
    /\ polls' = [polls EXCEPT ![from] = @ - 1]
    /\ UNCHANGED loading

(* catch / finally: the call ends and setLoading(false). *)
Finish(from) ==
    /\ polls' = [polls EXCEPT ![from] = @ - 1]
    /\ loading' = FALSE

(* Flush: the effects marked by the last commit run in declaration order   *)
(* on the committed values: the mount/testMode effect calls fetchData, the *)
(* polling effect clears and re-arms its interval, the alert effect plays  *)
(* and records, the mode effect forces or resets the mode and re-arms the  *)
(* rotation.  Their updates are committed together and mark the effects    *)
(* that depend on what changed.                                             *)
Flush ==
    LET a == AlertEffect(testMode, quakeData, tsunamiData, eewData, lastAlertTime)
        m == ModeEffect(testMode, eewData, activeMode)
        newLast == IF "alert" \in dirty THEN a.last ELSE lastAlertTime
        newMode == IF "mode" \in dirty THEN m.mode ELSE activeMode
    IN  /\ dirty # {}
        /\ IF "fetch" \in dirty /\ ~testMode
           THEN StartPoll
           ELSE UNCHANGED <<loading, polls>>
        /\ pollTimer' = IF "interval" \in dirty
                        THEN Arm(Cleanup(pollTimer), PollingEffect(testMode))
                        ELSE pollTimer
        /\ sound' = IF "alert" \in dirty THEN a.sound ELSE "none"
        /\ lastAlertTime' = newLast
        /\ alerted' = IF "alert" \in dirty /\ a.sound # "none"
                      THEN alerted \cup {a.last} ELSE alerted
        /\ activeMode' = newMode
        /\ rotation' = IF "mode" \in dirty
                       THEN Arm(Cleanup(rotation), m.rotation)
                       ELSE rotation
        /\ dirty' = (IF newLast # lastAlertTime THEN {"alert"} ELSE {})
                        \cup (IF newMode # activeMode THEN {"mode"} ELSE {})
        /\ manual' = IF newMode = activeMode THEN manual ELSE "no"
        /\ event' = "flush"
        /\ resp' = Read(NoResponse)
        /\ UNCHANGED helper
        /\ UNCHANGED <<quakeData, tsunamiData, eewData, testMode, now>>

(* The polling interval fires.  Its fetchData is the one of the render the *)
(* polling effect last ran in, and the effect arms it only with testMode   *)
(* false, so the call passes the test-mode check.                           *)
PollTick ==
    /\ dirty = {}
    /\ pollTimer # <<>>
    /\ InFlight < MaxInFlight
    /\ StartPoll
    /\ sound' = "none"
    /\ event' = "pollTick"
    /\ resp' = Read(NoResponse)
    /\ UNCHANGED helper
    /\ UNCHANGED <<quakeData, tsunamiData, eewData, testMode, activeMode,
                   lastAlertTime, pollTimer, rotation, dirty, now, alerted, manual>>

(* The refresh button (disabled while loading) calls the fetchData of the  *)
(* current render, which returns at once in test mode.                      *)
Refresh ==
    /\ dirty = {}
    /\ Rendered
    /\ ~loading
    /\ InFlight < MaxInFlight
    /\ IF testMode THEN UNCHANGED <<loading, polls>> ELSE StartPoll
    /\ sound' = "none"
    /\ event' = "refresh"
    /\ resp' = Read(NoResponse)
    /\ UNCHANGED helper
    /\ UNCHANGED <<quakeData, tsunamiData, eewData, testMode, activeMode,
                   lastAlertTime, pollTimer, rotation, dirty, now, alerted, manual>>

(* Promise.all settles and the 551 branch runs on response r. *)
PollQuake(r) ==
    LET o == QuakeOutcome(r) IN
    /\ dirty = {}
    /\ polls["quake"] > 0
    /\ quakeData' = IF o = "set" THEN QuakeData(r.time, r.maxScale) ELSE quakeData
    /\ dirty' = IF o = "set" THEN {"alert"} ELSE {}
    /\ IF o = "throw"
       THEN Finish("quake")
       ELSE Advance("quake", "tsunami") /\ UNCHANGED loading
    /\ sound' = "none"
    /\ event' = "quake"
    /\ resp' = Read(r)
    /\ UNCHANGED helper
    /\ UNCHANGED <<tsunamiData, eewData, testMode, activeMode, lastAlertTime,
                   pollTimer, rotation, now, alerted, manual>>

(* The 552 branch on response r. *)
PollTsunami(r) ==
    LET o == TsunamiOutcome(r)
        new == IF o = "set" THEN TsunamiData(r.time, r.cancelled)
               ELSE IF o = "clear" THEN Null ELSE tsunamiData
    IN  /\ dirty = {}
        /\ polls["tsunami"] > 0
        /\ tsunamiData' = new
        /\ dirty' = IF o = "set" \/ new # tsunamiData THEN {"alert"} ELSE {}
        /\ IF o = "throw"
           THEN Finish("tsunami")
           ELSE Advance("tsunami", "eew") /\ UNCHANGED loading
        /\ sound' = "none"
        /\ event' = "tsunami"
        /\ resp' = Read(r)
        /\ UNCHANGED helper
        /\ UNCHANGED <<quakeData, eewData, testMode, activeMode, lastAlertTime,
                       pollTimer, rotation, now, alerted, manual>>

(* The 554 branch on response r, and the finally that ends the call. *)
PollEEW(r) ==
    LET o == EEWOutcome(r, now)
        new == IF o = "set" THEN EEWData(r.time)
               ELSE IF o = "clear" THEN Null ELSE eewData
    IN  /\ dirty = {}
        /\ polls["eew"] > 0
        /\ eewData' = new
        /\ dirty' = IF o = "set" \/ new # eewData THEN {"alert", "mode"} ELSE {}
        /\ Finish("eew")
        /\ sound' = "none"
        /\ event' = "eew"
        /\ resp' = Read(r)
        /\ UNCHANGED helper
        /\ UNCHANGED <<quakeData, tsunamiData, testMode, activeMode, lastAlertTime,
                       pollTimer, rotation, now, alerted, manual>>

(* Faulty variant: the callback leaves a mode the user clicked alone. *)
RotationTickKeepsManual ==
    \E i \in DOMAIN rotation :
    LET new == IF manual = "yes" THEN activeMode ELSE Rotate(rotation[i], activeMode) IN
    /\ dirty = {}
    /\ activeMode' = new
    /\ dirty' = IF new # activeMode THEN {"mode"} ELSE {}
    /\ manual' = manual
    /\ sound' = "none"
    /\ event' = "rotate"
    /\ resp' = Read(NoResponse)
    /\ UNCHANGED helper
    /\ UNCHANGED <<quakeData, tsunamiData, eewData, loading, testMode,
                   lastAlertTime, polls, pollTimer, rotation, now, alerted>>

(* One of the armed rotation intervals fires. *)
RotationTick ==
    \E i \in DOMAIN rotation :
    LET new == Rotate(rotation[i], activeMode) IN
    /\ dirty = {}
    /\ activeMode' = new
    /\ dirty' = IF new # activeMode THEN {"mode"} ELSE {}
    /\ manual' = IF new = activeMode THEN manual
               ELSE IF manual = "yes" THEN "overridden" ELSE "no"
    /\ sound' = "none"
    /\ event' = "rotate"
    /\ resp' = Read(NoResponse)
    /\ UNCHANGED helper
    /\ UNCHANGED <<quakeData, tsunamiData, eewData, loading, testMode,
                   lastAlertTime, polls, pollTimer, rotation, now, alerted>>

(* Faulty variant: the tabs without their disabled attribute. *)
TabClickNeverDisabled(m) ==
    /\ dirty = {}
    /\ Rendered
    /\ activeMode' = m
    /\ dirty' = IF activeMode' # activeMode THEN {"mode"} ELSE {}
    /\ manual' = "yes"
    /\ sound' = "none"
    /\ event' = "tab"
    /\ resp' = Read(NoResponse)
    /\ UNCHANGED helper
    /\ UNCHANGED <<quakeData, tsunamiData, eewData, loading, testMode,
                   lastAlertTime, polls, pollTimer, rotation, now, alerted>>

(* A click on the SEISMIC or TSUNAMI tab; the tabs are disabled while      *)
(* isEEWActive, and a disabled button runs no handler.                      *)
TabClick(m) ==
    /\ dirty = {}
    /\ Rendered
    /\ activeMode' = IF isEEWActive THEN activeMode ELSE m
    /\ dirty' = IF activeMode' # activeMode THEN {"mode"} ELSE {}
    /\ manual' = IF isEEWActive THEN manual ELSE "yes"
    /\ sound' = "none"
    /\ event' = "tab"
    /\ resp' = Read(NoResponse)
    /\ UNCHANGED helper
    /\ UNCHANGED <<quakeData, tsunamiData, eewData, loading, testMode,
                   lastAlertTime, polls, pollTimer, rotation, now, alerted>>

(* toggleTestMode.  Switching off also schedules setTimeout(fetchData, 100) *)
(* with the fetchData of the render in which testMode is true: that call   *)
(* returns at its test-mode check and changes nothing.  The poll that      *)
(* follows is the one the mount/testMode effect starts in Flush.            *)
ToggleTestMode ==
    /\ dirty = {}
    /\ Rendered
    /\ IF ~testMode
       THEN /\ testMode' = TRUE
            /\ activeMode' = "EEW"
            /\ sound' = "eew"
            /\ eewData' = EEWData(now)
            /\ quakeData' = QuakeData(now, 60)
            /\ UNCHANGED <<tsunamiData, lastAlertTime>>
       ELSE /\ InFlight < MaxInFlight
            /\ testMode' = FALSE
            /\ quakeData' = Null
            /\ tsunamiData' = Null
            /\ eewData' = Null
            /\ lastAlertTime' = NoTime
            /\ activeMode' = "EARTHQUAKE"
            /\ sound' = "none"
    /\ dirty' = Effects
    /\ alerted' = {}
    /\ manual' = "no"
    /\ event' = "toggle"
    /\ resp' = Read(NoResponse)
    /\ UNCHANGED helper
    /\ UNCHANGED <<loading, polls, pollTimer, rotation, now>>

(* A minute passes. *)
Clock ==
    /\ dirty = {}
    /\ now < MaxNow
    /\ now' = now + 1
    /\ sound' = "none"
    /\ event' = "clock"
    /\ resp' = Read(NoResponse)
    /\ UNCHANGED helper
    /\ UNCHANGED <<quakeData, tsunamiData, eewData, loading, testMode, activeMode,
                   lastAlertTime, polls, pollTimer, rotation, dirty, alerted, manual>>

Next ==
    \/ Flush
    \/ PollTick
    \/ Refresh
    \/ \E r \in QuakeResponses : PollQuake(r)
    \/ \E r \in TsunamiResponses : PollTsunami(r)
    \/ \E r \in EEWResponses : PollEEW(r)
    \/ RotationTick
    \/ \E m \in {"EARTHQUAKE", "TSUNAMI"} : TabClick(m)
    \/ ToggleTestMode
    \/ Clock

Spec == Init /\ [][Next]_vars

(* The same program, with the response of every poll step on record. *)
PollInit == Mounted /\ resp = NoResponse /\ arg = NoCall /\ ret = NoCall
PollSpec == PollInit /\ [][Next]_vars

-----------------------------------------------------------------------------
(* Alert sound *)

(* A step in which the alert effect ran outside test mode. *)
AlertRun == event' = "flush" /\ "alert" \in dirty /\ ~testMode

(* The time of the record the effect's if / else-if chain stops at, 0 when *)
(* it stops at none.                                                        *)
CandidateTime ==
    IF eewData # Null THEN eewData.time
    ELSE IF quakeData # Null /\ quakeData.maxScale >= AlertScale THEN quakeData.time
    ELSE IF tsunamiData # Null /\ ~tsunamiData.cancelled THEN tsunamiData.time
    ELSE 0

\* C1: outside test mode no run of the alert effect plays a sound for an event
\* time for which a sound has been played before, whatever was alerted in between.
C1_AtMostOncePerTimestamp ==
    [][(AlertRun /\ sound' # "none") => lastAlertTime' \notin alerted]_vars

\* C2: an update whose candidate carries a time other than lastAlertTime plays the
\* sound and sets lastAlertTime to it; the next update whose candidate carries that
\* same time plays nothing and leaves lastAlertTime unchanged.
C2_SameTimestampOnce ==
    [][AlertRun =>
        /\ (CandidateTime # 0 /\ CandidateTime # lastAlertTime)
              => (sound' # "none" /\ lastAlertTime' = CandidateTime)
        /\ (CandidateTime # 0 /\ CandidateTime = lastAlertTime)
              => (sound' = "none" /\ lastAlertTime' = lastAlertTime)]_vars

\* C2 witness: a poll has stored a quake record again whose time is the one the
\* sound was already played for, and the alert effect is due.
C2_Witness ==
    /\ event = "quake" /\ "alert" \in dirty /\ ~testMode
    /\ eewData = Null /\ quakeData # Null /\ quakeData.maxScale >= AlertScale
    /\ quakeData.time = lastAlertTime /\ quakeData.time \in alerted

\* C3: the alert effect picks EEW, then a quake with maxScale >= 30, then a
\* non-cancelled tsunami: an EEW record with a time other than lastAlertTime gets
\* the EEW sound and its time recorded whatever the other records are; the normal
\* sound is played only for a quake with maxScale >= 30 when no EEW record is held,
\* or for a non-cancelled tsunami when neither is held.
C3_AlertPriority ==
    [][AlertRun =>
        /\ (eewData # Null /\ eewData.time # lastAlertTime)
              => (sound' = "eew" /\ lastAlertTime' = eewData.time)
        /\ sound' = "eew" => eewData # Null
        /\ sound' = "normal" =>
              /\ eewData = Null
              /\ \/ /\ quakeData # Null /\ quakeData.maxScale >= AlertScale
                    /\ lastAlertTime' = quakeData.time
                 \/ /\ ~(quakeData # Null /\ quakeData.maxScale >= AlertScale)
                    /\ tsunamiData # Null /\ ~tsunamiData.cancelled
                    /\ lastAlertTime' = tsunamiData.time]_vars

\* C3 witness: the EEW sound has been played while a quake with maxScale >= 30
\* and a non-cancelled tsunami, neither of them alerted, were held.
C3_Witness ==
    /\ event = "flush" /\ sound = "eew" /\ ~testMode
    /\ eewData # Null /\ lastAlertTime = eewData.time
    /\ quakeData # Null /\ quakeData.maxScale >= AlertScale
    /\ quakeData.time # eewData.time
    /\ tsunamiData # Null /\ ~tsunamiData.cancelled
    /\ tsunamiData.time # eewData.time

-----------------------------------------------------------------------------
(* Display mode *)

\* C4: whenever an EEW record is held and no effect is pending, the display mode
\* is EEW (so nothing has moved it to EARTHQUAKE or TSUNAMI while the record stayed).
C4_EEWForcesMode ==
    (eewData # Null /\ dirty = {}) => activeMode = "EEW"

\* C4, outside test mode: there the display mode is EEW whenever an EEW record is
\* held and no effect is pending.
C4_OutsideTestMode ==
    (eewData # Null /\ dirty = {} /\ ~testMode) => activeMode = "EEW"

\* C5: while an EEW record is present a click on the SEISMIC or TSUNAMI tab changes
\* neither the display mode nor any record.
C5_TabsDisabledDuringEEW ==
    [][(event' = "tab" /\ eewData # Null)
          => UNCHANGED <<activeMode, quakeData, tsunamiData, eewData, dirty>>]_vars

\* C5 witness: a tab was clicked while an EEW record was held outside test mode.
C5_Witness ==
    event = "tab" /\ eewData # Null /\ ~testMode /\ activeMode = "EEW"

\* C6: once the EEW record is absent and the mode selection effect has run, the
\* display mode is no longer EEW: it went to EARTHQUAKE before any rotation tick or
\* tab click could act.
C6_RevertsToEarthquake ==
    (eewData = Null /\ dirty = {}) => activeMode # "EEW"

\* C6, outside test mode: there the display mode is not EEW once the EEW record is
\* absent and no effect is pending.
C6_OutsideTestMode ==
    (eewData = Null /\ dirty = {} /\ ~testMode) => activeMode # "EEW"

(* The rotation interval stays armed across the commits of other handlers  *)
(* and fires 10 s after it was armed; a pending flush always runs.          *)
FairSpec == Spec /\ SF_vars(RotationTick) /\ WF_vars(Flush)

\* C7: with no EEW record and test mode off, every expiry of the rotation timer
\* switches EARTHQUAKE to TSUNAMI or TSUNAMI to EARTHQUAKE, and if the EEW record
\* stays absent and test mode stays off both modes are shown infinitely often.
C7_RotationAlternates ==
    /\ [][(event' = "rotate" /\ eewData = Null /\ ~testMode) =>
            \/ activeMode = "EARTHQUAKE" /\ activeMode' = "TSUNAMI"
            \/ activeMode = "TSUNAMI" /\ activeMode' = "EARTHQUAKE"]_vars
    /\ <>[](eewData = Null /\ ~testMode) =>
            ([]<>(activeMode = "EARTHQUAKE") /\ []<>(activeMode = "TSUNAMI"))

\* C7 witness: the rotation timer has just moved the display to TSUNAMI and then,
\* the user not having clicked a tab, no record being held.
C7_Witness ==
    /\ event = "rotate" /\ activeMode = "TSUNAMI" /\ manual = "no"
    /\ eewData = Null /\ ~testMode /\ dirty = {"mode"}

\* C8 (as stated): after a tab click chose the display mode, an expiry of the
\* rotation timer does not move the display away from it.
C8_ManualStopsRotation ==
    manual # "overridden"

\* C8 (amended): a tab click sets the display mode but does not stop the
\* alternation: the next expiry of the rotation timer moves the display from the
\* clicked mode to the other of EARTHQUAKE and TSUNAMI.
C8_RotationOverridesManual ==
    [][(event' = "rotate" /\ manual = "yes") =>
          /\ activeMode \in {"EARTHQUAKE", "TSUNAMI"}
          /\ activeMode' \in {"EARTHQUAKE", "TSUNAMI"} \ {activeMode}
          /\ manual' = "overridden"]_vars

\* C8 witness: the user clicked TSUNAMI and the rotation timer has since moved the
\* display to EARTHQUAKE.
C8_Witness ==
    /\ event = "rotate" /\ manual = "overridden" /\ activeMode = "EARTHQUAKE"
    /\ eewData = Null /\ ~testMode

-----------------------------------------------------------------------------
(* Polling *)

(* The response just read is an EEW item whose time parses. *)
EEWItemRead == event = "eew" /\ resp.kind \in EEWItemKinds /\ resp.time # 0

\* C9: a poll stores an EEW record only from a newest item that is not cancelled
\* and whose time is less than 3 minutes before the poll; an EEW response whose
\* newest item is cancelled, or 3 minutes old or older, sets the record to absent.
C9_FreshnessWindow ==
    /\ (event = "eew" /\ "mode" \in dirty /\ eewData # Null) =>
          /\ resp.kind = "item" /\ ~resp.cancelled
          /\ eewData.time = resp.time
          /\ now - resp.time < FreshnessWindow
    /\ (EEWItemRead /\ (resp.cancelled \/ now - resp.time >= FreshnessWindow))
          => eewData = Null

\* C9 witness: a poll has just replaced a held EEW record by absent because the
\* newest item, not cancelled, was exactly 3 minutes old.
C9_Witness ==
    /\ EEWItemRead /\ ~resp.cancelled /\ now - resp.time = FreshnessWindow
    /\ eewData = Null /\ "mode" \in dirty /\ ~testMode

-----------------------------------------------------------------------------
(* Poll cycles *)

\* C11: within a poll cycle the three feeds are processed independently: whatever
\* the 551 response was, the call goes on to the 552 response, and whatever that
\* one was, it goes on to the 554 response, so that a failure on one feed does not
\* keep the other records from being replaced in that cycle.
C11_FeedsIndependent ==
    [][/\ event' = "quake" => polls'["tsunami"] = polls["tsunami"] + 1
       /\ event' = "tsunami" => polls'["eew"] = polls["eew"] + 1]_vars

(* A step in which a fetchData call throws into its catch. *)
PollFailed ==
    \/ event' = "quake" /\ QuakeOutcome(resp') = "throw"
    \/ event' = "tsunami" /\ TsunamiOutcome(resp') = "throw"
    \/ event' = "eew" /\ EEWOutcome(resp', now) = "throw"

\* C12: every poll cycle that ends leaves the loading flag false; a cycle that fails
\* (a rejected request, unparsable JSON, a malformed newest item) ends in that same
\* step, leaves the polling timers as they were, and outside test mode leaves a
\* polling timer armed with no effect pending, so that its next tick starts a poll.
C12_FailureEndsCycle ==
    [][/\ InFlight' < InFlight => loading' = FALSE
       /\ PollFailed =>
             /\ InFlight' = InFlight - 1
             /\ pollTimer' = pollTimer
             /\ ~testMode => (pollTimer' # <<>> /\ dirty' = {})]_vars

\* C12 witness: a poll whose requests were rejected has ended, outside test mode,
\* with the loading flag false and the polling timer armed.
C12_Witness ==
    /\ event = "quake" /\ resp.kind = "rejected" /\ ~testMode
    /\ ~loading /\ InFlight = 0 /\ pollTimer # <<>>

\* C13: polls do not overlap: whenever a fetchData call processes a response, it is
\* the only call in flight, so no earlier-started call can write after it.
C13_PollsDoNotOverlap ==
    [][event' \in Stages => InFlight = 1]_vars

-----------------------------------------------------------------------------
(* Tsunami maxGrade *)

MaxAreas == 3        \* areas in the newest 552 item

(* The grades an area can carry; "Other" stands for any grade that is none *)
(* of the three the code tests for, nor 'Unknown'.                          *)
Grades == {"MajorWarning", "Warning", "Watch", "Unknown", "Other"}
AreaLists == UNION {[1..n -> Grades] : n \in 0..MaxAreas}

(* areas.some(a => a.grade === g) *)
Some(areas, g) == \E i \in DOMAIN areas : areas[i] = g

(* Faulty variant: Watch tested before Warning. *)
maxGradeWatchFirst(areas) ==
    IF Some(areas, "MajorWarning") THEN "MajorWarning"
    ELSE IF Some(areas, "Watch") THEN "Watch"
    ELSE IF Some(areas, "Warning") THEN "Warning"
    ELSE "Unknown"

(* let maxGrade = 'Unknown'; if (areas.some(...)) ... else if ... *)
maxGrade(areas) ==
    IF Some(areas, "MajorWarning") THEN "MajorWarning"
    ELSE IF Some(areas, "Warning") THEN "Warning"
    ELSE IF Some(areas, "Watch") THEN "Watch"
    ELSE "Unknown"

(* The 552 branch computes maxGrade for the areas of an item. *)
CallMaxGrade ==
    /\ arg.fn = "maxGrade"
    /\ ret = NoCall
    /\ ret' = [fn |-> "maxGrade", value |-> maxGrade(arg.value)]
    /\ UNCHANGED <<widget, arg>>

GradeInit ==
    /\ Mounted
    /\ resp = Untracked
    /\ arg \in [fn : {"maxGrade"}, value : AreaLists]
    /\ ret = NoCall

GradeSpec == GradeInit /\ [][CallMaxGrade]_vars

(* The order MajorWarning > Warning > Watch > everything else. *)
Severity(g) ==
    CASE g = "MajorWarning" -> 3
      [] g = "Warning" -> 2
      [] g = "Watch" -> 1
      [] OTHER -> 0

\* C14: the maxGrade computed for a list of areas is the highest grade occurring in
\* it under MajorWarning > Warning > Watch > Unknown: no area has a higher grade,
\* a named grade is returned only if some area has it, and a list with none of the
\* three named grades (the empty list too) gives Unknown.
C14_MaxGradeIsHighest ==
    ret.fn = "maxGrade" =>
        /\ \A i \in DOMAIN arg.value : Severity(arg.value[i]) <= Severity(ret.value)
        /\ Severity(ret.value) > 0 => Some(arg.value, ret.value)
        /\ Severity(ret.value) = 0 => ret.value = "Unknown"

\* C14 witness: areas graded Watch, Other, Warning in that order gave Warning.
C14_Witness ==
    /\ ret.fn = "maxGrade" /\ arg.value = <<"Watch", "Other", "Warning">>
    /\ ret.value = "Warning"

-----------------------------------------------------------------------------
(* getIntensityLabel *)

MaxScaleCode == 100      \* scale codes run up to MaxScaleCode, and 999
MaxBelow == 3            \* and down to -MaxBelow

ScaleCodes == ((0 - MaxBelow)..MaxScaleCode) \cup {999}

(* Faulty variant: the scale < 10 line left out. *)
getIntensityLabelNoZero(scale) ==
    IF scale = -1 THEN "UNKNOWN"
    ELSE IF scale = 10 THEN "1"
    ELSE IF scale = 20 THEN "2"
    ELSE IF scale = 30 THEN "3"
    ELSE IF scale = 40 THEN "4"
    ELSE IF scale = 45 THEN "5- (LOWER)"
    ELSE IF scale = 50 THEN "5+ (UPPER)"
    ELSE IF scale = 55 THEN "6- (LOWER)"
    ELSE IF scale = 60 THEN "6+ (UPPER)"
    ELSE IF scale = 70 THEN "7 (MAX)"
    ELSE "?"

getIntensityLabel(scale) ==
    IF scale = -1 THEN "UNKNOWN"
    ELSE IF scale < 10 THEN "0"
    ELSE IF scale = 10 THEN "1"
    ELSE IF scale = 20 THEN "2"
    ELSE IF scale = 30 THEN "3"
    ELSE IF scale = 40 THEN "4"
    ELSE IF scale = 45 THEN "5- (LOWER)"
    ELSE IF scale = 50 THEN "5+ (UPPER)"
    ELSE IF scale = 55 THEN "6- (LOWER)"
    ELSE IF scale = 60 THEN "6+ (UPPER)"
    ELSE IF scale = 70 THEN "7 (MAX)"
    ELSE "?"

(* The render labels a scale code. *)
CallGetIntensityLabel ==
    /\ arg.fn = "getIntensityLabel"
    /\ ret = NoCall
    /\ ret' = [fn |-> "getIntensityLabel", value |-> getIntensityLabel(arg.value)]
    /\ UNCHANGED <<widget, arg>>

LabelInit ==
    /\ Mounted
    /\ resp = Untracked
    /\ arg \in [fn : {"getIntensityLabel"}, value : ScaleCodes]
    /\ ret = NoCall

LabelSpec == LabelInit /\ [][CallGetIntensityLabel]_vars

(* The codes the table of the claim maps, and the label it gives each. *)
TableCodes == {-1, 10, 20, 30, 40, 45, 50, 55, 60, 70}
TableLabel(code) ==
    CASE code = -1 -> "UNKNOWN"
      [] code = 10 -> "1"
      [] code = 20 -> "2"
      [] code = 30 -> "3"
      [] code = 40 -> "4"
      [] code = 45 -> "5- (LOWER)"
      [] code = 50 -> "5+ (UPPER)"
      [] code = 55 -> "6- (LOWER)"
      [] code = 60 -> "6+ (UPPER)"
      [] code = 70 -> "7 (MAX)"

\* C15 (as stated): getIntensityLabel gives every code of the table its label and
\* every other integer "?".
C15_TableElseQuestionMark ==
    ret.fn = "getIntensityLabel" =>
        ret.value = IF arg.value \in TableCodes THEN TableLabel(arg.value) ELSE "?"

\* C15 (amended): getIntensityLabel gives every code of the table its label, every
\* other integer below 10 (0, 5, -2, ...) "0", and every other integer "?".
C15_TableZeroElseQuestionMark ==
    ret.fn = "getIntensityLabel" =>
        ret.value = IF arg.value \in TableCodes THEN TableLabel(arg.value)
                    ELSE IF arg.value < 10 THEN "0"
                    ELSE "?"

\* C15 witness: the code 0, which the table does not map, was labelled "0".
C15_Witness ==
    ret.fn = "getIntensityLabel" /\ arg.value = 0 /\ ret.value = "0"

-----------------------------------------------------------------------------
(* translateText *)
(*                                                                         *)
(* A string is the sequence of its characters.  A character outside ASCII  *)
(* is written by its code point: "u5317" is U+5317.  "u0009" is the tab.    *)

MaxKeys == 2         \* dictionary keys concatenated into one input
MaxLen == 3          \* characters of a free-form input

PREF_MAP == <<
    \* 北海道: "HOKKAIDO"
    [key |-> <<"u5317", "u6D77", "u9053">>, value |-> <<"H", "O", "K", "K", "A", "I", "D", "O">>],
    \* 青森: "AOMORI"
    [key |-> <<"u9752", "u68EE">>, value |-> <<"A", "O", "M", "O", "R", "I">>],
    \* 岩手: "IWATE"
    [key |-> <<"u5CA9", "u624B">>, value |-> <<"I", "W", "A", "T", "E">>],
    \* 宮城: "MIYAGI"
    [key |-> <<"u5BAE", "u57CE">>, value |-> <<"M", "I", "Y", "A", "G", "I">>],
    \* 秋田: "AKITA"
    [key |-> <<"u79CB", "u7530">>, value |-> <<"A", "K", "I", "T", "A">>],
    \* 山形: "YAMAGATA"
    [key |-> <<"u5C71", "u5F62">>, value |-> <<"Y", "A", "M", "A", "G", "A", "T", "A">>],
    \* 福島: "FUKUSHIMA"
    [key |-> <<"u798F", "u5CF6">>, value |-> <<"F", "U", "K", "U", "S", "H", "I", "M", "A">>],
    \* 茨城: "IBARAKI"
    [key |-> <<"u8328", "u57CE">>, value |-> <<"I", "B", "A", "R", "A", "K", "I">>],
    \* 栃木: "TOCHIGI"
    [key |-> <<"u6803", "u6728">>, value |-> <<"T", "O", "C", "H", "I", "G", "I">>],
    \* 群馬: "GUNMA"
    [key |-> <<"u7FA4", "u99AC">>, value |-> <<"G", "U", "N", "M", "A">>],
    \* 埼玉: "SAITAMA"
    [key |-> <<"u57FC", "u7389">>, value |-> <<"S", "A", "I", "T", "A", "M", "A">>],
    \* 千葉: "CHIBA"
    [key |-> <<"u5343", "u8449">>, value |-> <<"C", "H", "I", "B", "A">>],
    \* 東京: "TOKYO"
    [key |-> <<"u6771", "u4EAC">>, value |-> <<"T", "O", "K", "Y", "O">>],
    \* 神奈川: "KANAGAWA"
    [key |-> <<"u795E", "u5948", "u5DDD">>, value |-> <<"K", "A", "N", "A", "G", "A", "W", "A">>],
    \* 新潟: "NIIGATA"
    [key |-> <<"u65B0", "u6F5F">>, value |-> <<"N", "I", "I", "G", "A", "T", "A">>],
    \* 富山: "TOYAMA"
    [key |-> <<"u5BCC", "u5C71">>, value |-> <<"T", "O", "Y", "A", "M", "A">>],
    \* 石川: "ISHIKAWA"
    [key |-> <<"u77F3", "u5DDD">>, value |-> <<"I", "S", "H", "I", "K", "A", "W", "A">>],
    \* 福井: "FUKUI"
    [key |-> <<"u798F", "u4E95">>, value |-> <<"F", "U", "K", "U", "I">>],
    \* 山梨: "YAMANASHI"
    [key |-> <<"u5C71", "u68A8">>, value |-> <<"Y", "A", "M", "A", "N", "A", "S", "H", "I">>],
    \* 長野: "NAGANO"
    [key |-> <<"u9577", "u91CE">>, value |-> <<"N", "A", "G", "A", "N", "O">>],
    \* 岐阜: "GIFU"
    [key |-> <<"u5C90", "u961C">>, value |-> <<"G", "I", "F", "U">>],
    \* 静岡: "SHIZUOKA"
    [key |-> <<"u9759", "u5CA1">>, value |-> <<"S", "H", "I", "Z", "U", "O", "K", "A">>],
    \* 愛知: "AICHI"
    [key |-> <<"u611B", "u77E5">>, value |-> <<"A", "I", "C", "H", "I">>],
    \* 三重: "MIE"
    [key |-> <<"u4E09", "u91CD">>, value |-> <<"M", "I", "E">>],
    \* 滋賀: "SHIGA"
    [key |-> <<"u6ECB", "u8CC0">>, value |-> <<"S", "H", "I", "G", "A">>],
    \* 京都: "KYOTO"
    [key |-> <<"u4EAC", "u90FD">>, value |-> <<"K", "Y", "O", "T", "O">>],
    \* 大阪: "OSAKA"
    [key |-> <<"u5927", "u962A">>, value |-> <<"O", "S", "A", "K", "A">>],
    \* 兵庫: "HYOGO"
    [key |-> <<"u5175", "u5EAB">>, value |-> <<"H", "Y", "O", "G", "O">>],
    \* 奈良: "NARA"
    [key |-> <<"u5948", "u826F">>, value |-> <<"N", "A", "R", "A">>],
    \* 和歌山: "WAKAYAMA"
    [key |-> <<"u548C", "u6B4C", "u5C71">>, value |-> <<"W", "A", "K", "A", "Y", "A", "M", "A">>],
    \* 鳥取: "TOTTORI"
    [key |-> <<"u9CE5", "u53D6">>, value |-> <<"T", "O", "T", "T", "O", "R", "I">>],
    \* 島根: "SHIMANE"
    [key |-> <<"u5CF6", "u6839">>, value |-> <<"S", "H", "I", "M", "A", "N", "E">>],
    \* 岡山: "OKAYAMA"
    [key |-> <<"u5CA1", "u5C71">>, value |-> <<"O", "K", "A", "Y", "A", "M", "A">>],
    \* 広島: "HIROSHIMA"
    [key |-> <<"u5E83", "u5CF6">>, value |-> <<"H", "I", "R", "O", "S", "H", "I", "M", "A">>],
    \* 山口: "YAMAGUCHI"
    [key |-> <<"u5C71", "u53E3">>, value |-> <<"Y", "A", "M", "A", "G", "U", "C", "H", "I">>],
    \* 徳島: "TOKUSHIMA"
    [key |-> <<"u5FB3", "u5CF6">>, value |-> <<"T", "O", "K", "U", "S", "H", "I", "M", "A">>],
    \* 香川: "KAGAWA"
    [key |-> <<"u9999", "u5DDD">>, value |-> <<"K", "A", "G", "A", "W", "A">>],
    \* 愛媛: "EHIME"
    [key |-> <<"u611B", "u5A9B">>, value |-> <<"E", "H", "I", "M", "E">>],
    \* 高知: "KOCHI"
    [key |-> <<"u9AD8", "u77E5">>, value |-> <<"K", "O", "C", "H", "I">>],
    \* 福岡: "FUKUOKA"
    [key |-> <<"u798F", "u5CA1">>, value |-> <<"F", "U", "K", "U", "O", "K", "A">>],
    \* 佐賀: "SAGA"
    [key |-> <<"u4F50", "u8CC0">>, value |-> <<"S", "A", "G", "A">>],
    \* 長崎: "NAGASAKI"
    [key |-> <<"u9577", "u5D0E">>, value |-> <<"N", "A", "G", "A", "S", "A", "K", "I">>],
    \* 熊本: "KUMAMOTO"
    [key |-> <<"u718A", "u672C">>, value |-> <<"K", "U", "M", "A", "M", "O", "T", "O">>],
    \* 大分: "OITA"
    [key |-> <<"u5927", "u5206">>, value |-> <<"O", "I", "T", "A">>],
    \* 宮崎: "MIYAZAKI"
    [key |-> <<"u5BAE", "u5D0E">>, value |-> <<"M", "I", "Y", "A", "Z", "A", "K", "I">>],
    \* 鹿児島: "KAGOSHIMA"
    [key |-> <<"u9E7F", "u5150", "u5CF6">>, value |-> <<"K", "A", "G", "O", "S", "H", "I", "M", "A">>],
    \* 沖縄: "OKINAWA"
    [key |-> <<"u6C96", "u7E04">>, value |-> <<"O", "K", "I", "N", "A", "W", "A">>],
    \* トカラ: "TOKARA"
    [key |-> <<"u30C8", "u30AB", "u30E9">>, value |-> <<"T", "O", "K", "A", "R", "A">>],
    \* 奄美: "AMAMI"
    [key |-> <<"u5944", "u7F8E">>, value |-> <<"A", "M", "A", "M", "I">>]
>>

(* Prefectures *)
SuffixPrefectures == <<
    \* 県: " PREF"
    [key |-> <<"u770C">>, value |-> <<" ", "P", "R", "E", "F">>],
    \* 府: " PREF"
    [key |-> <<"u5E9C">>, value |-> <<" ", "P", "R", "E", "F">>],
    \* 都: " METRO"
    [key |-> <<"u90FD">>, value |-> <<" ", "M", "E", "T", "R", "O">>],
    \* 道: ""
    [key |-> <<"u9053">>, value |-> <<>>]
>>

(* Oceans & Coasts (For Tsunami) *)
SuffixOceans == <<
    \* 日本海: " SEA OF JAPAN"
    [key |-> <<"u65E5", "u672C", "u6D77">>, value |-> <<" ", "S", "E", "A", " ", "O", "F", " ", "J", "A", "P", "A", "N">>],
    \* 太平洋: " PACIFIC"
    [key |-> <<"u592A", "u5E73", "u6D0B">>, value |-> <<" ", "P", "A", "C", "I", "F", "I", "C">>],
    \* オホーツク海: " OKHOTSK"
    [key |-> <<"u30AA", "u30DB", "u30FC", "u30C4", "u30AF", "u6D77">>, value |-> <<" ", "O", "K", "H", "O", "T", "S", "K">>],
    \* 東シナ海: " EAST CHINA SEA"
    [key |-> <<"u6771", "u30B7", "u30CA", "u6D77">>, value |-> <<" ", "E", "A", "S", "T", " ", "C", "H", "I", "N", "A", " ", "S", "E", "A">>],
    \* 沿岸: " COAST"
    [key |-> <<"u6CBF", "u5CB8">>, value |-> <<" ", "C", "O", "A", "S", "T">>],
    \* 湾: " BAY"
    [key |-> <<"u6E7E">>, value |-> <<" ", "B", "A", "Y">>],
    \* 灘: " SEA"
    [key |-> <<"u7058">>, value |-> <<" ", "S", "E", "A">>],
    \* 海峡: " STRAIT"
    [key |-> <<"u6D77", "u5CE1">>, value |-> <<" ", "S", "T", "R", "A", "I", "T">>],
    \* 諸島: " ISLANDS"
    [key |-> <<"u8AF8", "u5CF6">>, value |-> <<" ", "I", "S", "L", "A", "N", "D", "S">>],
    \* 列島: " ISLANDS"
    [key |-> <<"u5217", "u5CF6">>, value |-> <<" ", "I", "S", "L", "A", "N", "D", "S">>],
    \* 近海: " NEAR SEA"
    [key |-> <<"u8FD1", "u6D77">>, value |-> <<" ", "N", "E", "A", "R", " ", "S", "E", "A">>],
    \* 外洋: " OPEN SEA"
    [key |-> <<"u5916", "u6D0B">>, value |-> <<" ", "O", "P", "E", "N", " ", "S", "E", "A">>],
    \* 連島: " ISLANDS"
    [key |-> <<"u9023", "u5CF6">>, value |-> <<" ", "I", "S", "L", "A", "N", "D", "S">>],
    \* 沖: " OFF"
    [key |-> <<"u6C96">>, value |-> <<" ", "O", "F", "F">>]
>>

(* 3-char Directions (Specific Regions) *)
SuffixDirections3 == <<
    \* 北東部: " NORTH EAST"
    [key |-> <<"u5317", "u6771", "u90E8">>, value |-> <<" ", "N", "O", "R", "T", "H", " ", "E", "A", "S", "T">>],
    \* 北西部: " NORTH WEST"
    [key |-> <<"u5317", "u897F", "u90E8">>, value |-> <<" ", "N", "O", "R", "T", "H", " ", "W", "E", "S", "T">>],
    \* 南東部: " SOUTH EAST"
    [key |-> <<"u5357", "u6771", "u90E8">>, value |-> <<" ", "S", "O", "U", "T", "H", " ", "E", "A", "S", "T">>],
    \* 南西部: " SOUTH WEST"
    [key |-> <<"u5357", "u897F", "u90E8">>, value |-> <<" ", "S", "O", "U", "T", "H", " ", "W", "E", "S", "T">>]
>>

(* 2-char Directions *)
SuffixDirections2 == <<
    \* 北部: " NORTH"
    [key |-> <<"u5317", "u90E8">>, value |-> <<" ", "N", "O", "R", "T", "H">>],
    \* 南部: " SOUTH"
    [key |-> <<"u5357", "u90E8">>, value |-> <<" ", "S", "O", "U", "T", "H">>],
    \* 東部: " EAST"
    [key |-> <<"u6771", "u90E8">>, value |-> <<" ", "E", "A", "S", "T">>],
    \* 西部: " WEST"
    [key |-> <<"u897F", "u90E8">>, value |-> <<" ", "W", "E", "S", "T">>],
    \* 中部: " CENTRAL"
    [key |-> <<"u4E2D", "u90E8">>, value |-> <<" ", "C", "E", "N", "T", "R", "A", "L">>],
    \* 北東: " NORTH EAST"
    [key |-> <<"u5317", "u6771">>, value |-> <<" ", "N", "O", "R", "T", "H", " ", "E", "A", "S", "T">>],
    \* 北西: " NORTH WEST"
    [key |-> <<"u5317", "u897F">>, value |-> <<" ", "N", "O", "R", "T", "H", " ", "W", "E", "S", "T">>],
    \* 南東: " SOUTH EAST"
    [key |-> <<"u5357", "u6771">>, value |-> <<" ", "S", "O", "U", "T", "H", " ", "E", "A", "S", "T">>],
    \* 南西: " SOUTH WEST"
    [key |-> <<"u5357", "u897F">>, value |-> <<" ", "S", "O", "U", "T", "H", " ", "W", "E", "S", "T">>]
>>

(* Geographical features *)
SuffixFeatures == <<
    \* 地方: " REGION"
    [key |-> <<"u5730", "u65B9">>, value |-> <<" ", "R", "E", "G", "I", "O", "N">>],
    \* 半島: " PENINSULA"
    [key |-> <<"u534A", "u5CF6">>, value |-> <<" ", "P", "E", "N", "I", "N", "S", "U", "L", "A">>],
    \* 島: " ISLAND"
    [key |-> <<"u5CF6">>, value |-> <<" ", "I", "S", "L", "A", "N", "D">>]
>>

(* 1-char Directions (Fallback) *)
SuffixDirections1 == <<
    \* 北: " NORTH"
    [key |-> <<"u5317">>, value |-> <<" ", "N", "O", "R", "T", "H">>],
    \* 南: " SOUTH"
    [key |-> <<"u5357">>, value |-> <<" ", "S", "O", "U", "T", "H">>],
    \* 東: " EAST"
    [key |-> <<"u6771">>, value |-> <<" ", "E", "A", "S", "T">>],
    \* 西: " WEST"
    [key |-> <<"u897F">>, value |-> <<" ", "W", "E", "S", "T">>]
>>

(* Faulty variant: the one-character directions moved to the front of the table. *)
SUFFIX_MAP_FallbackFirst ==
    SuffixDirections1 \o SuffixPrefectures \o SuffixOceans \o SuffixDirections3
        \o SuffixDirections2 \o SuffixFeatures

(* Object.keys(SUFFIX_MAP) yields the keys in the order they are written. *)
SUFFIX_MAP ==
    SuffixPrefectures \o SuffixOceans \o SuffixDirections3 \o SuffixDirections2
        \o SuffixFeatures \o SuffixDirections1

(* text.split(key).join(value): every occurrence of key, found from the    *)
(* left and not overlapping the one before, becomes value.                  *)
RECURSIVE ReplaceAll(_, _, _)
ReplaceAll(text, key, value) ==
    IF Len(text) < Len(key) THEN text
    ELSE IF text[1] = key[1] /\ SubSeq(text, 1, Len(key)) = key
    THEN value \o ReplaceAll(SubSeq(text, Len(key) + 1, Len(text)), key, value)
    ELSE <<text[1]>> \o ReplaceAll(Tail(text), key, value)

(* Object.keys(map).forEach(key => ...), from the i-th key on; nothing is  *)
(* left to replace in a text that has become empty.                         *)
RECURSIVE ReplaceKeys(_, _, _)
ReplaceKeys(text, map, i) ==
    IF text = <<>> \/ i > Len(map) THEN text
    ELSE ReplaceKeys(ReplaceAll(text, map[i].key, map[i].value), map, i + 1)

(* The characters \s matches, of those the model writes. *)
Whitespace == {" ", "u0009"}

RECURSIVE TrimStart(_)
TrimStart(text) ==
    IF text # <<>> /\ text[1] \in Whitespace THEN TrimStart(Tail(text)) ELSE text

RECURSIVE TrimEnd(_)
TrimEnd(text) ==
    IF text # <<>> /\ text[Len(text)] \in Whitespace
    THEN TrimEnd(SubSeq(text, 1, Len(text) - 1)) ELSE text

(* text.replace(/\s+/g, ' ') *)
RECURSIVE CollapseSpaces(_)
CollapseSpaces(text) ==
    IF text = <<>> THEN <<>>
    ELSE IF text[1] \in Whitespace
    THEN <<" ">> \o CollapseSpaces(TrimStart(text))
    ELSE <<text[1]>> \o CollapseSpaces(Tail(text))

(* trim() *)
Trim(text) == TrimEnd(TrimStart(text))

(* The upper case of a character: of the lower-case letters the model      *)
(* writes "a" and "b"; kanji and katakana have no case.                     *)
UpperChar(c) ==
    CASE c = "a" -> "A"
      [] c = "b" -> "B"
      [] OTHER -> c

(* Faulty variant: the text returned as it is. *)
toUpperCaseLeftOut(text) == text

toUpperCase(text) == [i \in DOMAIN text |-> UpperChar(text[i])]

translateText(japaneseText) ==
    IF japaneseText = <<>> THEN <<>>
    ELSE toUpperCase(Trim(CollapseSpaces(
             ReplaceKeys(ReplaceKeys(japaneseText, PREF_MAP, 1), SUFFIX_MAP, 1))))

(* A poll branch translates a name. *)
CallTranslateText ==
    /\ arg.fn = "translateText"
    /\ ret = NoCall
    /\ ret' = [fn |-> "translateText", value |-> translateText(arg.value)]
    /\ UNCHANGED <<widget, arg>>

(* The dictionary entries in the order translateText applies them. *)
Entries == PREF_MAP \o SUFFIX_MAP

(* The inputs built from dictionary keys: keys names the entries whose keys *)
(* are concatenated.                                                        *)
KeyTuples == UNION {[1..n -> DOMAIN Entries] : n \in 1..MaxKeys}

RECURSIVE Concat(_)
Concat(ks) ==
    IF ks = <<>> THEN <<>> ELSE Entries[Head(ks)].key \o Concat(Tail(ks))

KeyInit ==
    /\ Mounted
    /\ resp = Untracked
    /\ arg \in {[fn |-> "translateText", keys |-> ks, value |-> Concat(ks)] :
                    ks \in KeyTuples}
    /\ ret = NoCall

KeySpec == KeyInit /\ [][CallTranslateText]_vars

(* Free-form inputs: U+5343, U+9053 and U+8449 (the second is a key with    *)
(* the empty value, the first and third make up a prefecture key), U+770C   *)
(* (a key with a value), two letters, the space and the tab.                *)
Alphabet == {"u5343", "u9053", "u8449", "u770C", "a", "A", " ", "u0009"}
Texts == UNION {[1..n -> Alphabet] : n \in 0..MaxLen}

TextInit ==
    /\ Mounted
    /\ resp = Untracked
    /\ arg \in [fn : {"translateText"}, keys : {<<>>}, value : Texts]
    /\ ret = NoCall

TextSpec == TextInit /\ [][CallTranslateText]_vars

(* The characters that occur in a dictionary key. *)
KeyChars == {Entries[i].key[j] : <<i, j>> \in
                {<<i, j>> \in (DOMAIN Entries) \X (1..5) : j <= Len(Entries[i].key)}}

LowerCase == {"a", "b"}

\* C16: for every input made by concatenating dictionary keys, the translation
\* holds no character of any dictionary key and no lower-case letter.
C16_KeysFullyTranslated ==
    (ret.fn = "translateText" /\ arg.keys # <<>>) =>
        \A i \in DOMAIN ret.value :
            ret.value[i] \notin KeyChars /\ ret.value[i] \notin LowerCase

(* text holds key as a substring. *)
Contains(text, key) ==
    \E i \in 1..(Len(text) - Len(key) + 1) : SubSeq(text, i, i + Len(key) - 1) = key

\* C18: in the order of application (prefecture/region keys in table order, then
\* suffix keys in table order) a key that contains another key as a substring
\* comes before it, and so every key on its own is replaced by its own value.
C18_LongerKeyFirst ==
    /\ (arg.fn = "translateText" /\ Len(arg.keys) = 2) =>
          LET i == arg.keys[1]
              j == arg.keys[2]
          IN  (i # j /\ Contains(Entries[i].key, Entries[j].key)) => i < j
    /\ (ret.fn = "translateText" /\ Len(arg.keys) = 1) =>
          ret.value = toUpperCase(Trim(CollapseSpaces(Entries[arg.keys[1]].value)))

\* C18 witness: the key U+5317 U+6771 U+90E8 (north-east part), which contains
\* four later keys, was translated on its own to NORTH EAST.
C18_Witness ==
    /\ ret.fn = "translateText"
    /\ arg.value = <<"u5317", "u6771", "u90E8">> /\ Len(arg.keys) = 1
    /\ ret.value = <<"N", "O", "R", "T", "H", " ", "E", "A", "S", "T">>
    /\ \E j \in DOMAIN Entries :
          j > arg.keys[1] /\ Entries[j].key = <<"u5317", "u6771">>

(* text.split(/\s+/) without the empty pieces: the words of a text. *)
RECURSIVE Words(_)
Words(text) ==
    LET t == TrimStart(text)
        n == IF \E i \in DOMAIN t : t[i] \in Whitespace
             THEN (CHOOSE i \in DOMAIN t :
                      t[i] \in Whitespace /\ \A k \in 1..(i - 1) : t[k] \notin Whitespace) - 1
             ELSE Len(t)
    IN  IF t = <<>> THEN <<>>
        ELSE <<SubSeq(t, 1, n)>> \o Words(SubSeq(t, n + 1, Len(t)))

(* The words joined by single spaces. *)
RECURSIVE JoinWords(_)
JoinWords(ws) ==
    IF ws = <<>> THEN <<>>
    ELSE IF Len(ws) = 1 THEN ws[1]
    ELSE ws[1] \o <<" ">> \o JoinWords(Tail(ws))

(* The input upper-cased, its whitespace runs collapsed to one space, trimmed. *)
Normalised(text) ==
    JoinWords([k \in DOMAIN Words(text) |->
                  [i \in DOMAIN Words(text)[k] |-> UpperChar(Words(text)[k][i])]])

IsAscii(text) == \A i \in DOMAIN text : text[i] \in {"a", "A", " ", "u0009"}

\* C17 (as stated): translating a translation changes nothing, for every input;
\* and a pure-ASCII input comes back upper-cased, with its whitespace runs
\* collapsed to one space, trimmed, and otherwise unchanged.
C17_Idempotent ==
    ret.fn = "translateText" =>
        /\ translateText(ret.value) = ret.value
        /\ IsAscii(arg.value) => ret.value = Normalised(arg.value)

\* C17 (amended): translating a translation changes nothing for every input that
\* does not hold U+9053, the key with the empty value; and a pure-ASCII input
\* comes back upper-cased, with its whitespace runs collapsed to one space,
\* trimmed, and otherwise unchanged.
C17_IdempotentWithoutEmptyValue ==
    ret.fn = "translateText" =>
        /\ (\A i \in DOMAIN arg.value : arg.value[i] # "u9053")
              => translateText(ret.value) = ret.value
        /\ IsAscii(arg.value) => ret.value = Normalised(arg.value)

\* C17 witness: the input "a<tab>A" was translated to "A A", which translates to
\* itself.
C17_Witness ==
    /\ ret.fn = "translateText" /\ arg.value = <<"a", "u0009", "A">>
    /\ ret.value = <<"A", " ", "A">> /\ translateText(ret.value) = ret.value

-----------------------------------------------------------------------------
(* Timers and test mode *)

C20_TestModeIsolated ==
    [][(testMode /\ testMode') => UNCHANGED <<quakeData, tsunamiData, eewData>>]_vars

-----------------------------------------------------------------------------
(* Masked alerts, stale warnings, leaving test mode *)

\* C21: outside test mode, once the effects of a commit have run, the time of a
\* held non-cancelled tsunami record is one a sound has been played for: the record
\* does not stay held without its alert, also not behind an alerted quake record.
C21_TsunamiAlerted ==
    (~testMode /\ dirty = {} /\ tsunamiData # Null /\ ~tsunamiData.cancelled)
        => tsunamiData.time \in alerted

\* C22: outside test mode, a poll cycle that ends while the held EEW record is 3
\* minutes old or older leaves the EEW record absent, whatever its responses were.
C22_StaleEEWCleared ==
    [][(InFlight' < InFlight /\ ~testMode /\ eewData # Null
            /\ now - eewData.time >= FreshnessWindow)
          => eewData' = Null]_vars

\* C23: switching test mode off leaves the three records and lastAlertTime absent,
\* the display mode EARTHQUAKE and test mode off, with every effect due; the
\* effects run next, and they start a poll and arm one polling timer and one
\* rotation timer, the records still being absent.
C23_TestModeOffResets ==
    /\ [][(event' = "toggle" /\ testMode) =>
            /\ quakeData' = Null /\ tsunamiData' = Null /\ eewData' = Null
            /\ lastAlertTime' = NoTime
            /\ activeMode' = "EARTHQUAKE"
            /\ ~testMode'
            /\ dirty' = Effects]_vars
    /\ [][(event = "toggle" /\ ~testMode) =>
            /\ event' = "flush"
            /\ polls'["quake"] = polls["quake"] + 1
            /\ loading'
            /\ Len(pollTimer') = 1 /\ Len(rotation') = 1
            /\ quakeData' = Null /\ tsunamiData' = Null /\ eewData' = Null
            /\ lastAlertTime' = NoTime
            /\ activeMode' = "EARTHQUAKE"]_vars

\* C23 witness: test mode has just been switched off after a sound had been played
\* before it was switched on; no timer is armed yet.
C23_Witness ==
    /\ event = "toggle" /\ ~testMode /\ dirty = Effects
    /\ quakeData = Null /\ tsunamiData = Null /\ eewData = Null
    /\ lastAlertTime = NoTime /\ activeMode = "EARTHQUAKE"
    /\ pollTimer = <<>> /\ rotation = <<>> /\ InFlight > 0

====
